---- MODULE Spec2Model ----
(***************************************************************************)
(* Model of python/import_external_files_OF.py: the batch job that lists   *)
(* the "Final" folder, loads every ".csv" file into the staging table      *)
(* OF.External_file_staging, moves the file to "Final\loaded", and then    *)
(* issues one UPDATE per numeric text column that rewrites sentinel        *)
(* strings to NULL.                                                        *)
(*                                                                         *)
(* Text (file names, cell values, SQL literals) is a sequence of           *)
(* one-character strings, so that str.endswith, the parser's NA            *)
(* recognition and the database's string comparison are computed.          *)
(* Column names are only ever compared for equality by the code (dict      *)
(* keys of rename, INSERT column list) and are kept as plain strings.      *)
(***************************************************************************)
EXTENDS Integers, Sequences, FiniteSets, TLC

\* ------------------------------------------------------------------ bounds
\* number of times the script is started
MaxRuns == 2

\* ------------------------------------------------------------ text values
\* SQL NULL: a one-element sequence whose element is not a character
NULL == <<"<NULL>">>
\* the missing-value marker of a data frame
NaN == <<"<NaN>">>

S_Inf == <<"I", "n", "f">>
S_NegInf == <<"-", "I", "n", "f">>
S_NA == <<"N", "A">>
S_Null == <<"N", "u", "l", "l">>
S_NULL == <<"N", "U", "L", "L">>
S_Nan == <<"N", "a", "n">>
S_NaN == <<"N", "a", "N">>
S_Empty == <<>>

\* other cell texts used by the files and the pre-existing rows
V_0 == <<"0">>
V_05 == <<"0", ".", "5">>
V_1 == <<"1">>
V_2 == <<"2">>
V_3 == <<"3">>
V_17 == <<"1", "7">>
V_NAsp == <<"N", "A", " ">>
V_sp == <<" ">>
V_nan == <<"n", "a", "n">>
V_inf == <<"i", "n", "f">>

\* the literal list of the WHERE ... in ( ... ) clause
Sentinels == {S_Inf, S_NegInf, S_NA, S_Null, S_NULL, S_Nan, S_NaN, S_Empty}

\* the target columns, in the order of the list the cleanup loop iterates
fieldsReversed == <<"upperCI95", "lowerCI95", "IndicatorValue", "denominator", "numerator">>

fields == <<"numerator", "denominator", "IndicatorValue", "lowerCI95", "upperCI95">>

\* the columns of OF.External_file_staging that the script names
TableColumns == {"Column_0", "numerator", "denominator", "IndicatorValue", "lowerCI95", "upperCI95"}

\* the three alias columns, in the order of the three rename calls
Aliases == <<"Unnamed: 0", "ValueID", "ID">>

\* strings that pandas.read_csv turns into a missing value when na_values and
\* keep_default_na are left at their defaults, as the call does (dtype=str
\* does not switch this off)
DefaultNA ==
    { <<>>,
      <<"#", "N", "/", "A">>,
      <<"#", "N", "/", "A", " ", "N", "/", "A">>,
      <<"#", "N", "A">>,
      <<"-", "1", ".", "#", "I", "N", "D">>,
      <<"-", "1", ".", "#", "Q", "N", "A", "N">>,
      <<"-", "N", "a", "N">>,
      <<"-", "n", "a", "n">>,
      <<"1", ".", "#", "I", "N", "D">>,
      <<"1", ".", "#", "Q", "N", "A", "N">>,
      <<"<", "N", "A", ">">>,
      <<"N", "/", "A">>,
      <<"N", "A">>,
      <<"N", "U", "L", "L">>,
      <<"N", "a", "N">>,
      <<"n", "/", "a">>,
      <<"n", "a", "n">>,
      <<"n", "u", "l", "l">> }

\* ------------------------------------------------- the files of the folder
\* Three files that can be put into the folder.  1 and 3 carry the same name
\* (a file delivered again after the first was archived); 2 carries two
\* alias columns.  An empty header cell is the unnamed index column that R's
\* write.csv and DataFrame.to_csv emit.
Files == 1 .. 3

CsvExt == <<".", "c", "s", "v">>
\* folder_path2 is a sub-folder of folder_path, so os.listdir reports it
LoadedDir == <<"l", "o", "a", "d", "e", "d">>

FileName(f) ==
    CASE f = 1 -> <<"a">> \o CsvExt
      [] f = 2 -> <<"b">> \o CsvExt
      [] f = 3 -> <<"a">> \o CsvExt

FileHeader(f) ==
    CASE f = 1 -> <<"ID", "numerator", "denominator", "IndicatorValue", "lowerCI95", "upperCI95">>
      [] f = 2 -> <<"", "ValueID", "numerator">>
      [] f = 3 -> <<"", "IndicatorValue">>

FileRows(f) ==
    CASE f = 1 -> << <<V_1, V_05, S_NA, S_Inf, V_NAsp, V_nan>>,
                     <<V_2, V_0, S_Empty, S_NegInf, S_Null, V_05>> >>
      [] f = 2 -> << <<V_0, V_17, S_Nan>> >>
      [] f = 3 -> << <<V_3, V_inf>> >>

\* ------------------------------------------------------------ pure helpers
Max(S) == CHOOSE x \in S : \A y \in S : y <= x

\* every ordering of a finite set: os.listdir returns "arbitrary order"
Orderings(S) ==
    {s \in [1 .. Cardinality(S) -> S] : \A i, j \in 1 .. Cardinality(S) : i # j => s[i] # s[j]}

\* str.endswith
EndsWith(s, suffix) ==
    /\ Len(s) >= Len(suffix)
    /\ SubSeq(s, Len(s) - Len(suffix) + 1, Len(s)) = suffix

\* the name read_csv gives a header cell left empty at 0-based position i
UnnamedColumn(i) ==
    CASE i = 0 -> "Unnamed: 0"
      [] i = 1 -> "Unnamed: 1"
      [] OTHER -> "Unnamed: n"

\* pd.read_csv(file_path, dtype=str): header row to column labels, every
\* other row to text cells, a cell in the default NA set to NaN
ReadCsv(f) ==
    LET h == FileHeader(f)
        rows == FileRows(f)
    IN  [columns |-> [i \in 1 .. Len(h) |-> IF h[i] = "" THEN UnnamedColumn(i - 1) ELSE h[i]],
         data |-> [r \in 1 .. Len(rows) |->
                     [i \in 1 .. Len(h) |-> IF rows[r][i] \in DefaultNA THEN NaN ELSE rows[r][i]]]]

\* DataFrame.rename(columns={old: new}): relabels, keeps every column and
\* its position, and does not look at the labels already present
Rename(frame, old, new) ==
    [frame EXCEPT !.columns =
        [i \in 1 .. Len(frame.columns) |->
            IF frame.columns[i] = old THEN new ELSE frame.columns[i]]]

\* renames under which the alias renamed last wins: the other alias columns
\* are gone and a single Column_0 is left
RenameAliasesLastWins(frame) ==
    LET cols == frame.columns
        present == {a \in 1 .. Len(Aliases) : \E i \in 1 .. Len(cols) : cols[i] = Aliases[a]}
        keep == {i \in 1 .. Len(cols) :
                    \A a \in present : cols[i] = Aliases[a] => a = Max(present)}
        pos == [k \in 1 .. Cardinality(keep) |->
                  CHOOSE i \in keep : Cardinality({j \in keep : j <= i}) = k]
    IN  [columns |-> [k \in 1 .. Cardinality(keep) |->
                        IF \E a \in present : cols[pos[k]] = Aliases[a]
                        THEN "Column_0" ELSE cols[pos[k]]],
         data |-> [r \in 1 .. Len(frame.data) |->
                     [k \in 1 .. Cardinality(keep) |-> frame.data[r][pos[k]]]]]

\* lines 30-32: the three renames, in order
RenameAliases(frame) ==
    Rename(Rename(Rename(frame, Aliases[1], "Column_0"), Aliases[2], "Column_0"),
           Aliases[3], "Column_0")

ColumnPositions(frame, c) == {i \in 1 .. Len(frame.columns) : frame.columns[i] = c}

HasDuplicateColumns(frame) ==
    \E i, j \in 1 .. Len(frame.columns) : i # j /\ frame.columns[i] = frame.columns[j]

\* a missing value is sent to the database as NULL
SqlValue(v) == IF v = NaN THEN NULL ELSE v

\* the rows DataFrame.to_sql(..., if_exists="append", index=False) inserts:
\* one per frame row, keyed by column label (a label carried twice keeps the
\* value of its last position), a table column the frame lacks left NULL
ToSqlRows(frame) ==
    [r \in 1 .. Len(frame.data) |->
        [c \in TableColumns |->
            LET P == ColumnPositions(frame, c)
            IN  IF P = {} THEN NULL ELSE SqlValue(frame.data[r][Max(P)])]]

\* ------------------------------------------------ database string compare
LowerCase == <<"a", "b", "c", "d", "e", "f", "g", "h", "i", "j", "k", "l", "m",
               "n", "o", "p", "q", "r", "s", "t", "u", "v", "w", "x", "y", "z">>
UpperCase == <<"A", "B", "C", "D", "E", "F", "G", "H", "I", "J", "K", "L", "M",
               "N", "O", "P", "Q", "R", "S", "T", "U", "V", "W", "X", "Y", "Z">>

\* upper-casing as a table, letter to letter
UpperOf ==
    [ch \in {LowerCase[i] : i \in 1 .. Len(LowerCase)} |->
        UpperCase[CHOOSE i \in 1 .. Len(LowerCase) : LowerCase[i] = ch]]

ToUpper(ch) == IF ch \in DOMAIN UpperOf THEN UpperOf[ch] ELSE ch

RECURSIVE RTrim(_)
RTrim(s) ==
    IF s = <<>> THEN s
    ELSE IF s[Len(s)] = " " THEN RTrim(SubSeq(s, 1, Len(s) - 1))
    ELSE s

\* The comparison of = and IN on a (n)varchar column of SQL Server: two
\* strings are equal when their keys are.  Trailing spaces are not
\* significant; letter case is significant only under a case-sensitive
\* collation (ci = FALSE).
SqlKey(ci, s) ==
    LET t == RTrim(s)
    IN  IF ci THEN [i \in 1 .. Len(t) |-> ToUpper(t[i])] ELSE t

\* the keys of the literals of the WHERE clause, per collation
SentinelKeys == [ci \in BOOLEAN |-> {SqlKey(ci, l) : l \in Sentinels}]

\* ------------------------------------------------------------------- state
VARIABLES
    sqlalchemy2,  \* the installed SQLAlchemy is 2.x (no implicit commit) rather than 1.x
    collationCI,  \* the column collation is case-insensitive
    source,       \* files in folder_path
    archive,      \* files in folder_path2
    table,        \* rows of OF.External_file_staging, in insertion order
    pc,           \* position of the script
    listing,      \* the list os.listdir returned
    idx,          \* position of the for loop in listing
    df,           \* the data frame of the file being processed
    fieldIdx,     \* position of the cleanup loop in fields
    run,          \* number of times the script has been started
    log,          \* history: the operations of the current run, in order
    loads,        \* history: per file, the number of completed to_sql appends
    movedRun,     \* history: per file, the run whose shutil.move returned (0: none)
    seen,         \* history: files that have ever been in folder_path
    startSource,  \* history: source when the current run started
    startTable,   \* history: table when the current run started
    cleanStart    \* history: table when the file loop of the current run ended

vars == <<sqlalchemy2, collationCI, source, archive, table, pc, listing, idx, df,
          fieldIdx, run, log, loads, movedRun, seen, startSource, startTable, cleanStart>>

env == <<sqlalchemy2, collationCI>>

NoFrame == [columns |-> <<>>, data |-> <<>>]

Event(op, f, arg) == [op |-> op, f |-> f, arg |-> arg]

\* v IN (literals), given the comparison keys of the literals: never true
\* of NULL
SqlIn(v, literalKeys) == v # NULL /\ SqlKey(collationCI, v) \in literalKeys

\* an UPDATE that stopped after the first matching row
UpdateColumnFirstMatch(t, col) ==
    LET hits == {r \in 1 .. Len(t) : SqlIn(t[r][col], SentinelKeys[collationCI])}
    IN  [r \in 1 .. Len(t) |->
            IF hits # {} /\ r = (CHOOSE h \in hits : \A g \in hits : h <= g)
            THEN [t[r] EXCEPT ![col] = NULL]
            ELSE t[r]]

\* UPDATE ... SET col = NULL WHERE col in ('Inf', '-Inf', 'NA', 'Null', 'NULL', 'Nan', 'NaN', '')
UpdateColumn(t, col) ==
    [r \in 1 .. Len(t) |->
        IF SqlIn(t[r][col], SentinelKeys[collationCI]) THEN [t[r] EXCEPT ![col] = NULL] ELSE t[r]]

\* with engine.connect() as connection: connection.execute(sql.text(sql1))
\* The block never calls commit().  SQLAlchemy 1.x commits a textual UPDATE
\* by itself; SQLAlchemy 2.x begins a transaction and rolls it back when the
\* connection is closed at the end of the block.
ExecuteUpdate(t, col) == IF sqlalchemy2 THEN t ELSE UpdateColumn(t, col)

RECURSIVE CleanFrom(_, _)
\* the cleanup loop from position k of fields to the end
CleanFrom(t, k) ==
    IF k > Len(fields) THEN t ELSE CleanFrom(ExecuteUpdate(t, fields[k]), k + 1)

\* to_sql raises when a frame column is no column of the table, and, with
\* SQLAlchemy 2.x, when the frame carries a column label twice
ToSqlAccepts(frame) ==
    /\ \A i \in 1 .. Len(frame.columns) : frame.columns[i] \in TableColumns
    /\ ~(sqlalchemy2 /\ HasDuplicateColumns(frame))

\* os.listdir(folder_path): the names of the files and of the sub-folder
DirEntries(src) == {FileName(f) : f \in src} \cup {LoadedDir}

\* the file a listed name denotes
FileAt(name) == CHOOSE f \in source : FileName(f) = name

\* the file the loop is at
cur == FileAt(listing[idx])

\* shutil.move that left the file where it was
MoveSourceKeep(src, f) == src

\* shutil.move(file_path, file_path2): the file leaves folder_path
MoveSource(src, f) == src \ {f}

\* shutil.move towards a place that is not folder_path2
MoveArchiveElsewhere(arch, f) == arch

\* ... and is at folder_path2\filename, replacing a file of that name there
MoveArchive(arch, f) == {g \in arch : FileName(g) # FileName(f)} \cup {f}

\* an exception handler around the load that lets the move go ahead
RaiseSwallowLoad(at) == IF at = "tosql" THEN "move" ELSE "aborted"

\* an exception handler around the file loop that goes on to the cleanup
RaiseSwallowLoop(at) == IF at \in {"read", "tosql", "move"} THEN "clean" ELSE "aborted"

\* an exception raised at a statement: nothing catches it, the script ends
Raise(at) == "aborted"

\* cell contents of the rows the table holds before the first run
CellTexts ==
    <<S_Inf, S_NegInf, S_NA, S_Null, S_NULL, S_Nan, S_NaN, S_Empty,
      V_0, V_05, V_NAsp, V_sp, V_nan, V_inf, NULL>>

\* The rows of the staging table before the first run: three rows whose
\* fifteen target cells hold the fifteen contents of CellTexts, the first
\* row the first five, and so on.
PreExisting ==
    [r \in 1 .. (Len(CellTexts) \div Len(fields)) |->
        [c \in TableColumns |->
            IF c = "Column_0" THEN V_0
            ELSE LET k == CHOOSE j \in 1 .. Len(fields) : fields[j] = c
                 IN  CellTexts[(r - 1) * Len(fields) + k]]]

\* ----------------------------------------------------------------- actions
Init ==
    /\ sqlalchemy2 \in BOOLEAN
    /\ collationCI \in BOOLEAN
    /\ source \in SUBSET {1, 2}
    /\ archive = {}
    /\ table = PreExisting
    /\ pc = "idle"
    /\ listing = <<>>
    /\ idx = 1
    /\ df = NoFrame
    /\ fieldIdx = 1
    /\ run = 0
    /\ log = <<>>
    /\ loads = [f \in Files |-> 0]
    /\ movedRun = [f \in Files |-> 0]
    /\ seen = source
    /\ startSource = {}
    /\ startTable = table
    /\ cleanStart = <<>>

\* somebody puts a file into the folder while the script is not running
Drop(f) ==
    /\ pc \in {"idle", "done", "aborted"}
    /\ f \notin seen
    /\ \A g \in source : FileName(g) # FileName(f)
    /\ source' = source \cup {f}
    /\ seen' = seen \cup {f}
    /\ UNCHANGED <<env, archive, table, pc, listing, idx, df, fieldIdx, run, log,
                   loads, movedRun, startSource, startTable, cleanStart>>

\* the script is started: line 25, os.listdir(folder_path)
ListDir ==
    /\ pc \in {"idle", "done", "aborted"}
    /\ run < MaxRuns
    /\ run' = run + 1
    /\ listing' \in Orderings(DirEntries(source))
    /\ idx' = 1
    /\ pc' = "loop"
    /\ df' = NoFrame
    /\ fieldIdx' = 1
    /\ log' = <<>>
    /\ startSource' = source
    /\ startTable' = table
    /\ cleanStart' = <<>>
    /\ UNCHANGED <<env, source, archive, table, loads, movedRun, seen>>

\* line 26: a name that does not end in ".csv" is passed over
SkipEntry ==
    /\ pc = "loop"
    /\ idx <= Len(listing)
    /\ ~EndsWith(listing[idx], CsvExt)
    /\ idx' = idx + 1
    /\ UNCHANGED <<env, source, archive, table, pc, listing, df, fieldIdx, run, log,
                   loads, movedRun, seen, startSource, startTable, cleanStart>>

\* line 28: pd.read_csv returns the frame
ReadOk ==
    /\ pc = "loop"
    /\ idx <= Len(listing)
    /\ EndsWith(listing[idx], CsvExt)
    /\ df' = ReadCsv(cur)
    /\ pc' = "rename"
    /\ log' = Append(log, Event("read", cur, ""))
    /\ UNCHANGED <<env, source, archive, table, listing, idx, fieldIdx, run,
                   loads, movedRun, seen, startSource, startTable, cleanStart>>

\* line 28: pd.read_csv raises (the file cannot be opened or parsed)
ReadFail ==
    /\ pc = "loop"
    /\ idx <= Len(listing)
    /\ EndsWith(listing[idx], CsvExt)
    /\ pc' = Raise("read")
    /\ log' = Append(log, Event("error", cur, "LoadError"))
    /\ UNCHANGED <<env, source, archive, table, listing, idx, df, fieldIdx, run,
                   loads, movedRun, seen, startSource, startTable, cleanStart>>

\* lines 30-32
RenameStep ==
    /\ pc = "rename"
    /\ df' = RenameAliases(df)
    /\ pc' = "tosql"
    /\ UNCHANGED <<env, source, archive, table, listing, idx, fieldIdx, run, log,
                   loads, movedRun, seen, startSource, startTable, cleanStart>>

\* line 34: df.to_sql appends the frame's rows in one transaction
ToSqlOk ==
    /\ pc = "tosql"
    /\ ToSqlAccepts(df)
    /\ table' = table \o ToSqlRows(df)
    /\ loads' = [loads EXCEPT ![cur] = @ + 1]
    /\ pc' = "move"
    /\ log' = Append(log, Event("append", cur, ""))
    /\ UNCHANGED <<env, source, archive, listing, idx, df, fieldIdx, run,
                   movedRun, seen, startSource, startTable, cleanStart>>

\* line 34: df.to_sql raises (the frame does not fit the table, or the
\* connection fails); the transaction is rolled back
ToSqlFail ==
    /\ pc = "tosql"
    /\ pc' = Raise("tosql")
    /\ log' = Append(log, Event("error", cur, "LoadError"))
    /\ UNCHANGED <<env, source, archive, table, listing, idx, df, fieldIdx, run,
                   loads, movedRun, seen, startSource, startTable, cleanStart>>

\* lines 36-38: shutil.move returns
MoveOk ==
    /\ pc = "move"
    /\ source' = MoveSource(source, cur)
    /\ archive' = MoveArchive(archive, cur)
    /\ movedRun' = [movedRun EXCEPT ![cur] = run]
    /\ log' = Append(log, Event("move", cur, ""))
    /\ idx' = idx + 1
    /\ df' = NoFrame
    /\ pc' = "loop"
    /\ UNCHANGED <<env, table, listing, fieldIdx, run, loads, seen, startSource, startTable, cleanStart>>

\* lines 36-38: shutil.move raises.  Either nothing was done (the rename
\* and the copy both failed), or os.rename failed, the fall-back copy was
\* written and the os.unlink of the original failed.
MoveFail ==
    /\ pc = "move"
    /\ \E copied \in BOOLEAN :
        archive' = IF copied THEN MoveArchive(archive, cur) ELSE archive
    /\ pc' = Raise("move")
    /\ log' = Append(log, Event("error", cur, "MoveError"))
    /\ UNCHANGED <<env, source, table, listing, idx, df, fieldIdx, run,
                   loads, movedRun, seen, startSource, startTable, cleanStart>>

\* line 41: the for loop has run out of names
LoopEnd ==
    /\ pc = "loop"
    /\ idx > Len(listing)
    /\ pc' = "clean"
    /\ fieldIdx' = 1
    /\ cleanStart' = table
    /\ UNCHANGED <<env, source, archive, table, listing, idx, df, run, log,
                   loads, movedRun, seen, startSource, startTable>>

\* lines 43-51: one UPDATE statement
CleanOk ==
    /\ pc = "clean"
    /\ fieldIdx <= Len(fields)
    /\ table' = ExecuteUpdate(table, fields[fieldIdx])
    /\ log' = Append(log, Event("update", 0, fields[fieldIdx]))
    /\ fieldIdx' = fieldIdx + 1
    /\ UNCHANGED <<env, source, archive, pc, listing, idx, df, run,
                   loads, movedRun, seen, startSource, startTable, cleanStart>>

\* lines 50-51: the statement raises
CleanFail ==
    /\ pc = "clean"
    /\ fieldIdx <= Len(fields)
    /\ pc' = Raise("update")
    /\ log' = Append(log, Event("error", 0, "UpdateError"))
    /\ UNCHANGED <<env, source, archive, table, listing, idx, df, fieldIdx, run,
                   loads, movedRun, seen, startSource, startTable, cleanStart>>

\* the end of the script is reached
Finish ==
    /\ pc = "clean"
    /\ fieldIdx > Len(fields)
    /\ pc' = "done"
    /\ UNCHANGED <<env, source, archive, table, listing, idx, df, fieldIdx, run, log,
                   loads, movedRun, seen, startSource, startTable, cleanStart>>

Next ==
    \/ \E f \in Files : Drop(f)
    \/ ListDir
    \/ SkipEntry
    \/ ReadOk
    \/ ReadFail
    \/ RenameStep
    \/ ToSqlOk
    \/ ToSqlFail
    \/ MoveOk
    \/ MoveFail
    \/ LoopEnd
    \/ CleanOk
    \/ CleanFail
    \/ Finish

Spec == Init /\ [][Next]_vars

\* ---------------------------------------------------- vocabulary of claims
IsCsv(f) == EndsWith(FileName(f), CsvExt)

LastEvent == log[Len(log)]

\* the current run has raised
Failed == log # <<>> /\ LastEvent.op = "error"

\* the current run has not gone past its file loop
InFileLoop ==
    \/ pc \in {"loop", "rename", "tosql", "move"}
    \/ pc = "aborted" /\ Failed /\ LastEvent.arg # "UpdateError"

\* the steps of a run
RunStep ==
    \/ SkipEntry \/ ReadOk \/ ReadFail \/ RenameStep \/ ToSqlOk \/ ToSqlFail
    \/ MoveOk \/ MoveFail \/ LoopEnd \/ CleanOk \/ CleanFail \/ Finish

\* the rows the code inserts for file f
LoadedRows(f) == ToSqlRows(RenameAliases(ReadCsv(f)))

RECURSIVE AppendedFrom(_)
\* the rows inserted by the appends of the current run, from log position i on
AppendedFrom(i) ==
    IF i > Len(log) THEN <<>>
    ELSE (IF log[i].op = "append" THEN LoadedRows(log[i].f) ELSE <<>>) \o AppendedFrom(i + 1)

\* positions of the alias columns in the header of file f as parsed
AliasPositions(f) ==
    {i \in 1 .. Len(FileHeader(f)) :
        \E a \in 1 .. Len(Aliases) : ReadCsv(f).columns[i] = Aliases[a]}

\* the rows of file f as the file states them: the alias column under the
\* name Column_0, every other column under its own name, every cell the text
\* of the file
RowsAsWritten(f) ==
    [r \in 1 .. Len(FileRows(f)) |->
        [c \in TableColumns |->
            LET P == {i \in 1 .. Len(FileHeader(f)) :
                        (IF i \in AliasPositions(f) THEN "Column_0" ELSE ReadCsv(f).columns[i]) = c}
            IN  IF P = {} THEN NULL ELSE FileRows(f)[r][CHOOSE i \in P : TRUE]]]

RECURSIVE WrittenFrom(_)
WrittenFrom(i) ==
    IF i > Len(log) THEN <<>>
    ELSE (IF log[i].op = "append" THEN RowsAsWritten(log[i].f) ELSE <<>>) \o WrittenFrom(i + 1)

\* ------------------------------------------------------------------ claims

\* C1: after a run that completes without error, every file that was in the
\* source folder with a name ending in ".csv" when the run started is in the
\* archive folder and no longer in the source folder.
C1_CsvFilesArchived ==
    pc = "done" =>
        \A f \in startSource : IsCsv(f) => f \in archive /\ f \notin source

\* a run over two ".csv" files has completed
C1_Witness ==
    /\ pc = "done"
    /\ startSource = {1, 2}
    /\ archive = {1, 2}

\* C2 (as claimed): a load appends every row of the file with the alias
\* column renamed to Column_0 and every other column and cell as the file has
\* it, and leaves the rows that were in the table before it as they were.
C2_LoadKeepsCells ==
    (/\ InFileLoop
     /\ \A i \in 1 .. Len(log) :
            log[i].op = "append" => Cardinality(AliasPositions(log[i].f)) = 1)
    => table = startTable \o WrittenFrom(1)

\* C3 (as claimed): when the cleanup loop has run to completion, every cell
\* of a target column that held one of the eight sentinel strings holds NULL
\* and every cell that held another string holds that string.
C3_SentinelsNulledOthersKept ==
    pc = "done" =>
        \A r \in 1 .. Len(cleanStart) :
            \A c \in {"numerator", "denominator", "IndicatorValue", "lowerCI95", "upperCI95"} :
                /\ cleanStart[r][c] \in Sentinels => table[r][c] = NULL
                /\ cleanStart[r][c] \notin Sentinels => table[r][c] = cleanStart[r][c]

\* C4: the cleanup pass is idempotent: applying the five UPDATEs to a table
\* they have already been applied to changes nothing, for the table of every
\* reachable state and for the table a completed run leaves.
C4_CleanerIdempotent ==
    /\ CleanFrom(CleanFrom(table, 1), 1) = CleanFrom(table, 1)
    /\ pc = "done" => table = CleanFrom(cleanStart, 1) /\ CleanFrom(table, 1) = table

\* a completed cleanup pass that did rewrite cells
C4_Witness ==
    /\ pc = "done"
    /\ table # cleanStart
    /\ \E r1, r2 \in 1 .. Len(table) :
        /\ r1 # r2
        /\ cleanStart[r1]["numerator"] = S_Inf /\ table[r1]["numerator"] = NULL
        /\ cleanStart[r2]["numerator"] = S_Nan /\ table[r2]["numerator"] = NULL

\* C5: the move of a file is attempted only after its load has succeeded: a
\* file in the archive folder has been appended, the script stands before
\* the move only with the rows of that file at the end of the table, every
\* move follows the append of the same file, and a file whose load failed is
\* still in the source folder and has not been moved by this run.
C5_MoveOnlyAfterLoad ==
    /\ \A f \in archive : loads[f] >= 1
    /\ pc = "move" =>
        /\ log # <<>> /\ LastEvent = Event("append", cur, "")
        /\ Len(table) >= Len(FileRows(cur))
        /\ SubSeq(table, Len(table) - Len(FileRows(cur)) + 1, Len(table)) = LoadedRows(cur)
    /\ \A i \in 1 .. Len(log) :
        log[i].op = "move" => i > 1 /\ log[i - 1] = Event("append", log[i].f, "")
    /\ (pc = "aborted" /\ Failed /\ LastEvent.arg = "LoadError") =>
        /\ LastEvent.f \in source
        /\ \A i \in 1 .. Len(log) : ~(log[i].op = "move" /\ log[i].f = LastEvent.f)

\* a load failed after another file had been loaded and moved
C5_Witness ==
    /\ pc = "aborted"
    /\ Failed
    /\ LastEvent.arg = "LoadError"
    /\ \E i \in 1 .. Len(log) : log[i].op = "move" /\ log[i].f \in archive

\* C6: an error ends the run where it is raised: the error is the last
\* operation of the run, the script is stopped exactly when one was raised,
\* no step of the run is possible once it is stopped, and no operation
\* occurs twice in a run (nothing is retried).
C6_ErrorAborts ==
    /\ \A i \in 1 .. Len(log) : log[i].op = "error" => i = Len(log)
    /\ Failed <=> pc = "aborted"
    /\ pc = "aborted" => ~ENABLED RunStep
    /\ \A i, j \in 1 .. Len(log) : i # j => log[i] # log[j]

\* a load error stopped the run while another ".csv" file was still to come
\* and before any UPDATE
C6_Witness ==
    /\ pc = "aborted"
    /\ Failed
    /\ LastEvent.arg = "LoadError"
    /\ \E f \in source :
        /\ IsCsv(f)
        /\ f # LastEvent.f
        /\ \A i \in 1 .. Len(log) : log[i].f # f
    /\ table = startTable \o AppendedFrom(1)

\* the order of the target columns as the claim states it
C7_Order == <<"numerator", "denominator", "IndicatorValue", "lowerCI95", "upperCI95">>

\* C7: execution is sequential: a file is read only at the start of the run
\* or right after the move of the file before it, appended right after it
\* was read and moved right after it was appended; the first UPDATE comes
\* after every ".csv" file of the run has been moved, the UPDATEs follow one
\* another in the order numerator, denominator, IndicatorValue, lowerCI95,
\* upperCI95, and a completed run ends with exactly these five.
C7_Sequential ==
    /\ \A i \in 1 .. Len(log) :
        /\ log[i].op = "read" => (i = 1 \/ log[i - 1].op = "move")
        /\ log[i].op = "append" => (i > 1 /\ log[i - 1] = Event("read", log[i].f, ""))
        /\ log[i].op = "move" => (i > 1 /\ log[i - 1] = Event("append", log[i].f, ""))
        /\ log[i].op = "update" =>
            \E k \in 1 .. Len(C7_Order) :
                /\ log[i].arg = C7_Order[k]
                /\ IF k = 1
                   THEN /\ (i = 1 \/ log[i - 1].op = "move")
                        /\ \A f \in startSource :
                            IsCsv(f) => \E j \in 1 .. (i - 1) : log[j] = Event("move", f, "")
                   ELSE i > 1 /\ log[i - 1] = Event("update", 0, C7_Order[k - 1])
    /\ pc = "done" =>
        /\ Len(log) >= Len(C7_Order)
        /\ \A k \in 1 .. Len(C7_Order) :
            log[Len(log) - Len(C7_Order) + k] = Event("update", 0, C7_Order[k])
        /\ Cardinality({i \in 1 .. Len(log) : log[i].op = "update"}) = Len(C7_Order)

\* a run over two ".csv" files has completed
C7_Witness ==
    /\ pc = "done"
    /\ Cardinality({i \in 1 .. Len(log) : log[i].op = "move"}) = 2

\* C8: a run does not touch a file that an earlier run archived: every file
\* read, appended or moved by the current run has not been moved by an
\* earlier one, and throughout the file loop the table is the table the run
\* started with followed by the rows of the files this run has appended.
C8_RerunLeavesArchivedAlone ==
    /\ \A i \in 1 .. Len(log) :
        log[i].op \in {"read", "append", "move"} => movedRun[log[i].f] \in {0, run}
    /\ InFileLoop => table = startTable \o AppendedFrom(1)

\* the second run, after a first one that archived a file and then stopped
\* at the move of another, has loaded that other file
C8_Witness ==
    /\ run = 2
    /\ \E f, g \in Files :
        /\ movedRun[f] = 1
        /\ loads[g] = 2
        /\ \E i \in 1 .. Len(log) : log[i] = Event("append", g, "")

\* C9 (as claimed): with more than one alias in the header, the frame handed
\* to the append has a single Column_0 column, holding the data of the alias
\* that is renamed last.
C9_LastRenameWins ==
    (pc = "tosql" /\ Cardinality(AliasPositions(cur)) > 1) =>
        /\ Cardinality(ColumnPositions(df, "Column_0")) = 1
        /\ LET last == CHOOSE i \in AliasPositions(cur) :
                          \A j \in AliasPositions(cur) :
                              \A a, b \in 1 .. Len(Aliases) :
                                  (ReadCsv(cur).columns[i] = Aliases[a]
                                   /\ ReadCsv(cur).columns[j] = Aliases[b]) => b <= a
               at == CHOOSE i \in ColumnPositions(df, "Column_0") : TRUE
           IN  \A r \in 1 .. Len(df.data) : df.data[r][at] = ReadCsv(cur).data[r][last]

\* C9 (amended): with more than one alias in the header, the renames relabel
\* each alias column in place: the frame handed to the append has as many
\* columns as the file, every alias column is called Column_0, every other
\* column keeps its name, and every column keeps its data; the rename step
\* always goes through.
C9_EveryAliasRelabelledInPlace ==
    /\ pc = "rename" => ENABLED RenameStep
    /\ (pc = "tosql" /\ Cardinality(AliasPositions(cur)) > 1) =>
        /\ Len(df.columns) = Len(FileHeader(cur))
        /\ \A i \in 1 .. Len(FileHeader(cur)) :
            df.columns[i] = IF i \in AliasPositions(cur) THEN "Column_0" ELSE ReadCsv(cur).columns[i]
        /\ df.data = ReadCsv(cur).data

\* the frame of the file with two alias columns stands before the append
C9_Witness ==
    /\ pc = "tosql"
    /\ Cardinality(AliasPositions(cur)) = 2
    /\ Cardinality(ColumnPositions(df, "Column_0")) = 2

\* C10 (as claimed): no file is appended more than once over all runs, and
\* when a run has ended no ".csv" file still in the source folder has been
\* appended.
C10_AppendedAtMostOnce ==
    /\ \A f \in Files : loads[f] <= 1
    /\ pc \in {"done", "aborted"} => \A f \in source : IsCsv(f) => loads[f] = 0

====
